---- MODULE Spec2Model ----
(***************************************************************************)
(* Model of the add pipeline of bit (AddComponents.add and its helpers in  *)
(* src/consumer/component-ops/add-components/add-components.js).           *)
(*                                                                         *)
(* A path is a sequence of segments; a segment is the sequence of the      *)
(* dot-separated parts of a name, so "src/a/a.spec.js" is                  *)
(* << <<"src">>, <<"a">>, <<"a","spec","js">> >>.  A pattern (a component  *)
(* path, a test, an exclude or a main file as the user writes it) is a     *)
(* sequence of tokens: a literal segment, {PARENT}, {FILE_NAME}<suffix>,   *)
(* or the glob star.  All paths are relative to the consumer root, which   *)
(* is also the working directory (configuredConsumer is false, the command *)
(* line's setting).                                                        *)
(***************************************************************************)
EXTENDS Integers, Sequences, FiniteSets, TLC

\* ------------------------------------------------------------------ bounds
\* number of add() invocations of one behaviour (the same request repeated)
MaxAdds == 2
\* number of optional request fields that depart from their default at once
MaxOptions == 2

\* ---------------------------------------------------------------- sequences
Range(s) == {s[i] : i \in 1..Len(s)}

Map(s, F(_)) == [i \in 1..Len(s) |-> F(s[i])]

RECURSIVE Flatten(_)
Flatten(ss) == IF ss = <<>> THEN <<>> ELSE Head(ss) \o Flatten(Tail(ss))

\* R.uniq: the first occurrence of every element, in order
RECURSIVE Uniq(_)
Uniq(s) ==
    IF s = <<>> THEN <<>>
    ELSE LET r == Uniq(SubSeq(s, 1, Len(s) - 1))
             x == s[Len(s)]
         IN  IF x \in Range(r) THEN r ELSE Append(r, x)

IsPrefix(p, q) == Len(p) <= Len(q) /\ SubSeq(q, 1, Len(p)) = p

\* the least index of s whose element satisfies T, or 0
FirstIndex(s, T(_)) ==
    IF \E i \in 1..Len(s) : T(s[i])
    THEN CHOOSE i \in 1..Len(s) : T(s[i]) /\ \A j \in 1..(i - 1) : ~T(s[j])
    ELSE 0

\* -------------------------------------------------------------------- paths
NoPath == <<>>

\* path.dirname / path.basename
DirName(p) == SubSeq(p, 1, Len(p) - 1)
BaseName(p) == p[Len(p)]
\* path.parse(p).name: the base name without its last extension
NameOf(seg) == IF Len(seg) > 1 THEN SubSeq(seg, 1, Len(seg) - 1) ELSE seg
\* path.parse(p).ext, "" when there is none
ExtOf(seg) == IF Len(seg) > 1 THEN seg[Len(seg)] ELSE ""

\* ------------------------------------------------------------------ the disk
\* The working tree, in glob's (alphabetical) order.  auto: the file carries
\* the auto-generated stamp that isAutoGeneratedFile looks for.
Disk == <<
  [path |-> << <<"comp">> >>,                                   isDir |-> TRUE,  auto |-> FALSE],
  [path |-> << <<"comp">>, <<"c">> >>,                          isDir |-> TRUE,  auto |-> FALSE],
  [path |-> << <<"comp">>, <<"c">>, <<"c","js">> >>,            isDir |-> FALSE, auto |-> FALSE],
  [path |-> << <<"comp">>, <<"c">>, <<"dep","png">> >>,         isDir |-> FALSE, auto |-> FALSE],
  [path |-> << <<"comp">>, <<"c">>, <<"dist">> >>,              isDir |-> TRUE,  auto |-> FALSE],
  [path |-> << <<"comp">>, <<"c">>, <<"dist">>, <<"c","js">> >>, isDir |-> FALSE, auto |-> FALSE],
  [path |-> << <<"comp">>, <<"c">>, <<"link","js">> >>,         isDir |-> FALSE, auto |-> TRUE],
  [path |-> << <<"src">> >>,                                    isDir |-> TRUE,  auto |-> FALSE],
  [path |-> << <<"src">>, <<"a">> >>,                           isDir |-> TRUE,  auto |-> FALSE],
  [path |-> << <<"src">>, <<"a","js">> >>,                      isDir |-> FALSE, auto |-> FALSE],
  [path |-> << <<"src">>, <<"a">>, <<"a","js">> >>,             isDir |-> FALSE, auto |-> FALSE],
  [path |-> << <<"src">>, <<"a">>, <<"a","spec","js">> >>,      isDir |-> FALSE, auto |-> FALSE],
  [path |-> << <<"src">>, <<"a">>, <<"gen","js">> >>,           isDir |-> FALSE, auto |-> TRUE],
  [path |-> << <<"src">>, <<"b">> >>,                           isDir |-> TRUE,  auto |-> FALSE],
  [path |-> << <<"src">>, <<"b">>, <<"b","js">> >>,             isDir |-> FALSE, auto |-> FALSE],
  [path |-> << <<"src">>, <<"b">>, <<"b","ts">> >>,             isDir |-> FALSE, auto |-> FALSE],
  [path |-> << <<"src">>, <<"e">> >>,                           isDir |-> TRUE,  auto |-> FALSE],
  [path |-> << <<"src">>, <<"e">>, <<"e","log">> >>,            isDir |-> FALSE, auto |-> FALSE],
  [path |-> << <<"src">>, <<"test">> >>,                        isDir |-> TRUE,  auto |-> FALSE],
  [path |-> << <<"src">>, <<"test">>, <<"shared","spec","js">> >>, isDir |-> FALSE, auto |-> FALSE]
>>

\* the last segment of the consumer's absolute path (path.resolve prepends it)
ConsumerPath == << <<"proj">> >>

DiskPaths == {Disk[i].path : i \in 1..Len(Disk)}

existsSync(p) == p \in DiskPaths

isDir(p) == \E i \in 1..Len(Disk) : Disk[i].path = p /\ Disk[i].isDir

isAutoGeneratedFile(p) == \E i \in 1..Len(Disk) : Disk[i].path = p /\ Disk[i].auto

\* the extensions bit can write a link file for
SupportedExtensions == {"js", "ts"}

isSupportedExtension(p) == ExtOf(BaseName(p)) \in SupportedExtensions

\* ----------------------------------------------------------------- patterns
\* A token is a literal segment, {PARENT} or {FILE_NAME} followed by a suffix.
\* A literal segment <<"*">> is the glob star.
L(seg) == [k |-> "lit", v |-> seg]
PARENT == [k |-> "parent", v |-> <<>>]
FILE_NAME(suffix) == [k |-> "fname", v |-> suffix]

Lit(p) == [i \in 1..Len(p) |-> L(p[i])]

\* REGEX_DSL_PATTERN matches: the pattern holds a placeholder
IsDsl(pat) == \E i \in 1..Len(pat) : pat[i].k # "lit"

\* { PARENT, FILE_NAME } of a path: the name of the directory that holds it and
\* its base name without extension
calculateFileInfo(file) ==
    [PARENT |-> IF Len(file) > 1 THEN file[Len(file) - 1] ELSE <<".">>,
     FILE_NAME |-> NameOf(BaseName(file))]

\* string-format: the pattern with its placeholders filled in
format(pat, fileInfo) ==
    [i \in 1..Len(pat) |->
        CASE pat[i].k = "lit" -> pat[i].v
          [] pat[i].k = "parent" -> fileInfo.PARENT
          [] pat[i].k = "fname" -> fileInfo.FILE_NAME \o pat[i].v]

SegMatches(g, seg) == g = seg \/ (g = <<"*">> /\ seg[1] # "")

\* glob(pattern): the entries of the disk the pattern matches, directories too
glob(g) ==
    LET Hit(d) == /\ Len(d.path) = Len(g)
                  /\ \A i \in 1..Len(g) : SegMatches(g[i], d.path[i])
    IN  Map(SelectSeq(Disk, Hit), LAMBDA d : d.path)

\* glob(dir/**, {nodir: true}): every file below dir
globFilesUnder(dir) ==
    LET Hit(d) == ~d.isDir /\ IsPrefix(dir, d.path) /\ Len(d.path) > Len(dir)
    IN  Map(SelectSeq(Disk, Hit), LAMBDA d : d.path)

\* -------------------------------------------------------------- ignore rules
\* An ignore rule is a path; under: the rule is "<path>/**".  As in gitignore
\* a rule of one segment matches that name at any depth, a longer one is
\* anchored at the root; a matched directory hides everything below it.
Rule(p) == [p |-> p, under |-> FALSE]
RuleUnder(p) == [p |-> p, under |-> TRUE]

RuleMatches(rule, p) ==
    IF rule.under THEN IsPrefix(rule.p, p) /\ Len(p) > Len(rule.p)
    ELSE IF Len(rule.p) = 1 THEN \E i \in 1..Len(p) : p[i] = rule.p[1]
    ELSE IsPrefix(rule.p, p)

\* ignore().add(list).ignores(path)
ignores(list, p) == \E i \in 1..Len(list) : RuleMatches(list[i], p)

\* ignore().add(list).filter(paths)
ignoreFilter(list, paths) == SelectSeq(paths, LAMBDA p : ~ignores(list, p))

\* retrieveIgnoreList(consumerPath): the project's ignore file
BaseIgnoreList == << Rule(<< <<"e","log">> >>), Rule(<< <<"node_modules">> >>) >>

\* --------------------------------------------------------------- identities
\* BitId: scope and version are "" when absent, box is <<>> when absent.
\* The record stands for the id's string form as well (toString is injective).
BitId(scope, box, name, version) ==
    [scope |-> scope, box |-> box, name |-> name, version |-> version]

NoId == BitId("", <<>>, <<>>, "")

toStringWithoutVersion(id) == [id EXCEPT !.version = ""]

\* isEqual with ignoreScopeAndVersion
BareEqual(a, b) == a.box = b.box /\ a.name = b.name

hasVersion(id) == id.version # ""

AUTHORED == "AUTHORED"
IMPORTED == "IMPORTED"
NESTED == "NESTED"

\* ------------------------------------------------------- the tracking index
\* bit.map: component records in insertion order.  files is a sequence of
\* [relativePath, test] (name is the base name of relativePath).
NoComponent ==
    [id |-> NoId, origin |-> "", rootDir |-> NoPath, files |-> <<>>,
     mainFile |-> <<>>, trackDir |-> NoPath]

ComponentMap(id, origin, rootDir, files, mainFile, trackDir) ==
    [id |-> id, origin |-> origin, rootDir |-> rootDir, files |-> files,
     mainFile |-> mainFile, trackDir |-> trackDir]

File(p, test) == [relativePath |-> p, test |-> test]

PathsOf(files) == {files[i].relativePath : i \in 1..Len(files)}

\* bitMap.getComponent(id): the record of exactly this id
getComponent(bm, id) ==
    LET i == FirstIndex(bm, LAMBDA c : c.id = id)
    IN  IF i = 0 THEN NoComponent ELSE bm[i]

\* bitMap.getExistingBitId(id, false): the recorded id that matches id when
\* scope and version are ignored
getExistingBitId(bm, id) ==
    LET i == FirstIndex(bm, LAMBDA c : BareEqual(c.id, id))
    IN  IF i = 0 THEN NoId ELSE bm[i].id

\* bitMap.getComponentIfExist(id, {ignoreScopeAndVersion: true})
getComponentIfExist(bm, id) ==
    LET i == FirstIndex(bm, LAMBDA c : BareEqual(c.id, id))
    IN  IF i = 0 THEN NoComponent ELSE bm[i]

\* bitMap.getComponentIdByPath(path): the first record that tracks the path
getComponentIdByPath(bm, p) ==
    LET i == FirstIndex(bm, LAMBDA c : p \in PathsOf(c.files))
    IN  IF i = 0 THEN NoId ELSE bm[i].id

\* bitMap.getAllComponents(IMPORTED), as their root directories
importedRootDirs(bm) ==
    Map(SelectSeq(bm, LAMBDA c : c.origin = IMPORTED), LAMBDA c : c.rootDir)

\* R.unionWith(eqBy relativePath): the new entries, then the old ones they
\* do not replace
mergeFiles(files, existing) ==
    files \o SelectSeq(existing, LAMBDA f : f.relativePath \notin PathsOf(files))

\* ------------------------------------------------------------------- errors
\* One shape for every failure: kind, and the payload fields the kind uses.
Err(kind, paths, ids, id, owner, file) ==
    [kind |-> kind, paths |-> paths, ids |-> ids, id |-> id, owner |-> owner,
     file |-> file]

NoErr == Err("", {}, {}, NoId, NoId, NoPath)

PathsNotExist(paths) == Err("PathsNotExist", paths, {}, NoId, NoId, NoPath)
\* a failure for ignored paths that is the one for missing paths
NoFiles_AsPathsNotExist(paths) == Err("PathsNotExist", paths, {}, NoId, NoId, NoPath)

NoFiles(paths) == Err("NoFiles", paths, {}, NoId, NoId, NoPath)
EmptyDirectory == Err("EmptyDirectory", {}, {}, NoId, NoId, NoPath)
TestIsDirectory(p) == Err("TestIsDirectory", {}, {}, NoId, NoId, p)
ExcludedMainFile(p) == Err("ExcludedMainFile", {}, {}, NoId, NoId, p)
MainFileIsDir(p) == Err("MainFileIsDir", {}, {}, NoId, NoId, p)
DuplicateIds(ids) == Err("DuplicateIds", {}, ids, NoId, NoId, NoPath)
VersionShouldBeRemoved(id) == Err("VersionShouldBeRemoved", {}, {}, id, NoId, NoPath)
GeneralError(id) == Err("GeneralError", {}, {}, NoId, id, NoPath)
MissingComponentIdForImportedComponent(id) ==
    Err("MissingComponentIdForImportedComponent", {}, {}, id, NoId, NoPath)
IncorrectIdForImportedComponent(owner, id, file) ==
    Err("IncorrectIdForImportedComponent", {}, {}, id, owner, file)
\* a failure outside the taxonomy (I/O while loading a component model)
UncategorizedError == Err("Error", {}, {}, NoId, NoId, NoPath)

\* ------------------------------------------------------------ path expansion
\* validatePaths: throws at the first path that does not exist
validatePaths(fileArray) ==
    LET i == FirstIndex(fileArray, LAMBDA p : ~existsSync(p))
    IN  [err |-> IF i = 0 THEN NoErr ELSE PathsNotExist({fileArray[i]}),
         stats |-> IF i = 0 THEN Uniq(fileArray) ELSE <<>>]

\* getIgnoreList: the project's rules, then dist/** of every imported
\* component (no component of the modelled index has ejected configuration)
getIgnoreList(bm) ==
    BaseIgnoreList
      \o Map(importedRootDirs(bm), LAMBDA d : RuleUnder(Append(d, <<"dist">>)))

\* getFilesAccordingToDsl: every pattern filled in from every file, globbed,
\* ignore-filtered, kept when on disk; flattened and deduplicated
getFilesAccordingToDsl(files, dsls, gitIgnore) ==
    LET One(dsl, file) ==
            SelectSeq(ignoreFilter(gitIgnore, glob(format(dsl, calculateFileInfo(file)))),
                      existsSync)
        PerDsl(dsl) == Flatten(Map(files, LAMBDA file : One(dsl, file)))
    IN  Uniq(Flatten(Map(dsls, PerDsl)))

\* the path a literal pattern denotes
PathOf(pat) == [i \in 1..Len(pat) |-> pat[i].v]

\* getMissingTestFiles: the literal test files that are not on disk
getMissingTestFiles(tests) ==
    {PathOf(tests[i]) :
        i \in {j \in 1..Len(tests) : ~IsDsl(tests[j]) /\ glob(PathOf(tests[j])) = <<>>}}

\* ------------------------------------------------- one component's file set
\* An AddedComponent.  mainFile is a pattern: a literal one once resolved,
\* <<>> when there is none.
AddedComponent(componentId, files, mainFile, trackDir) ==
    [componentId |-> componentId, files |-> files, mainFile |-> mainFile,
     trackDir |-> trackDir]

\* a reconciliation that lets any version through
getIdAccordingToExistingComponent_AnyVersion(bm, currentId, thisId) ==
    LET With(existingComponentId) ==
          IF existingComponentId # NoId /\ getComponent(bm, existingComponentId).origin = NESTED
          THEN [err |-> GeneralError(existingComponentId), id |-> NoId]
          ELSE [err |-> NoErr,
                id |-> IF existingComponentId # NoId THEN existingComponentId ELSE currentId]
    IN  With(getExistingBitId(bm, currentId))

\* _getIdAccordingToExistingComponent(currentId), thisId being this.id
getIdAccordingToExistingComponent(bm, currentId, thisId) ==
    LET With(existingComponentId) ==
          IF existingComponentId # NoId /\ getComponent(bm, existingComponentId).origin = NESTED
          THEN [err |-> GeneralError(existingComponentId), id |-> NoId]
          ELSE IF /\ hasVersion(currentId)
                  /\ \/ existingComponentId = NoId
                     \/ ~hasVersion(existingComponentId)
                     \/ existingComponentId.version # thisId.version
          THEN [err |-> VersionShouldBeRemoved(thisId), id |-> NoId]
          ELSE [err |-> NoErr,
                id |-> IF existingComponentId # NoId THEN existingComponentId ELSE currentId]
    IN  With(getExistingBitId(bm, currentId))

\* _mergeTestFilesWithFiles: the test files the patterns give for these
\* files, then the files that are not among them
mergeTestFilesWithFiles(files, tests, gitIgnore) ==
    LET With(testFiles) ==
          IF \E i \in 1..Len(testFiles) : isDir(testFiles[i])
          THEN [err |-> TestIsDirectory(testFiles[FirstIndex(testFiles, isDir)]),
                files |-> <<>>]
          ELSE [err |-> NoErr,
                files |-> mergeFiles([i \in 1..Len(testFiles) |-> File(testFiles[i], TRUE)],
                                     files)]
    IN  With(IF tests = <<>> THEN <<>>
             ELSE getFilesAccordingToDsl([i \in 1..Len(files) |-> files[i].relativePath],
                                         tests, gitIgnore))

\* the forEach of _addMainFileToFiles over files[i..n], for a DSL main file
RECURSIVE MainFileDsl(_, _, _, _)
MainFileDsl(i, n, st, gitIgnore) ==
    LET With(generatedFile) ==
          IF generatedFile \in PathsOf(st.files)
          THEN [st EXCEPT !.mainFile = Lit(generatedFile)]
          ELSE IF ~existsSync(generatedFile) THEN st
          ELSE IF ignores(gitIgnore, generatedFile)
          THEN [st EXCEPT !.err = ExcludedMainFile(generatedFile)]
          ELSE [st EXCEPT !.files = Append(st.files, File(generatedFile, FALSE)),
                          !.mainFile = Lit(generatedFile)]
    IN  IF i > n \/ st.err # NoErr THEN st
        ELSE MainFileDsl(i + 1, n,
                 With(format(st.mainFile, calculateFileInfo(st.files[i].relativePath))),
                 gitIgnore)

\* _addMainFileToFiles: [err, files, mainFile]
addMainFileToFiles(files, main, gitIgnore) ==
    LET With(st) ==
          IF st.err # NoErr \/ st.mainFile = <<>> \/ IsDsl(st.mainFile) THEN st
          ELSE IF ~existsSync(PathOf(st.mainFile)) THEN st
          ELSE IF ignores(gitIgnore, PathOf(st.mainFile))
          THEN [st EXCEPT !.err = ExcludedMainFile(PathOf(st.mainFile))]
          ELSE IF isDir(PathOf(st.mainFile))
          THEN [st EXCEPT !.err = MainFileIsDir(PathOf(st.mainFile))]
          ELSE IF PathOf(st.mainFile) \in PathsOf(st.files) THEN st
          ELSE [st EXCEPT !.files = Append(st.files, File(PathOf(st.mainFile), FALSE))]
    IN  With(MainFileDsl(1, IF main # <<>> /\ IsDsl(main) THEN Len(files) ELSE 0,
                         [err |-> NoErr, files |-> files, mainFile |-> main], gitIgnore))

\* ------------------------------------------------------------- a request
\* AddProps.  id is NoId, namespace <<>>, main <<>>, tests and exclude <<>>
\* when not given.
AddProps(componentPaths, id, main, namespace, tests, exclude, override, trackDirFeature, origin) ==
    [componentPaths |-> componentPaths, id |-> id, main |-> main,
     namespace |-> namespace, tests |-> tests, exclude |-> exclude,
     override |-> override, trackDirFeature |-> trackDirFeature,
     origin |-> origin]

\* a derivation that does not look at the namespace of the request
idFromPath_IgnoresNamespace(r, componentPath) ==
    LET splitPath == ConsumerPath \o componentPath
        n == Len(componentPath) + Len(ConsumerPath)
    IN  IF isDir(componentPath)
        THEN BitId("", splitPath[n - 1], splitPath[n], "")
        ELSE BitId("", splitPath[n - 1], NameOf(splitPath[n]), "")

\* the id a path gives when the user gave none: namespace (or the segment
\* before the last) and the last segment, for a file without its extension
idFromPath(r, componentPath) ==
    LET splitPath == ConsumerPath \o componentPath
        n == Len(componentPath) + Len(ConsumerPath)
        nameSpaceOrDir == IF r.namespace # <<>> THEN r.namespace ELSE splitPath[n - 1]
    IN  IF isDir(componentPath)
        THEN BitId("", nameSpaceOrDir, splitPath[n], "")
        ELSE BitId("", nameSpaceOrDir, NameOf(splitPath[n]), "")

\* the files of a component path before tests and main file are merged in
pathFiles(gitIgnore, componentPath) ==
    IF isDir(componentPath)
    THEN Map(ignoreFilter(gitIgnore, globFilesUnder(componentPath)), LAMBDA m : File(m, FALSE))
    ELSE <<File(componentPath, FALSE)>>

\* a track directory that does not look at the exclude patterns
trackDirOf_DespiteExclude(r, componentPath, nPaths) ==
    IF isDir(componentPath) /\ nPaths = 1 /\ r.origin = AUTHORED
    THEN componentPath ELSE NoPath

\* trackDir of the component of one path: the path when it is a directory,
\* the only path given to addOneComponent, nothing is excluded and the
\* origin is authored
trackDirOf(r, componentPath, nPaths) ==
    IF isDir(componentPath) /\ nPaths = 1 /\ r.exclude = <<>> /\ r.origin = AUTHORED
    THEN componentPath ELSE NoPath

\* the callback of addOneComponent for one component path: [err, comp].
\* finalBitId is NoId when no path has set it yet.  For a directory the id
\* is derived after the files, tests and main file, for a file before them.
onePath(bm, r, gitIgnore, componentPath, nPaths, finalBitId) ==
    LET fail(e) == [err |-> e, comp |-> AddedComponent(NoId, <<>>, <<>>, NoPath)]
        trackDir == trackDirOf(r, componentPath, nPaths)
        With(matched, idRes, m) ==
          IF matched = <<>> THEN fail(EmptyDirectory)
          ELSE IF ~isDir(componentPath) /\ idRes.err # NoErr THEN fail(idRes.err)
          ELSE IF m.err # NoErr THEN fail(m.err)
          ELSE IF idRes.err # NoErr THEN fail(idRes.err)
          ELSE [err |-> NoErr,
                comp |-> AddedComponent(idRes.id, m.files, m.mainFile, trackDir)]
        Merged(t) == IF t.err # NoErr THEN [err |-> t.err, files |-> <<>>, mainFile |-> <<>>]
                     ELSE addMainFileToFiles(t.files, r.main, gitIgnore)
        Files(matched) ==
          With(matched,
               IF finalBitId # NoId THEN [err |-> NoErr, id |-> finalBitId]
               ELSE getIdAccordingToExistingComponent(bm, idFromPath(r, componentPath), r.id),
               Merged(mergeTestFilesWithFiles(matched, r.tests, gitIgnore)))
    IN  Files(pathFiles(gitIgnore, componentPath))

\* an exclusion that takes the excluded files out and keeps the rest, the
\* main file being among the excluded or not
removeExcludedFiles_KeepsRest(componentsWithFiles, exclude, gitIgnore) ==
    LET With(resolvedExcludedFiles) ==
          [k \in 1..Len(componentsWithFiles) |->
              [componentsWithFiles[k] EXCEPT !.files =
                  SelectSeq(componentsWithFiles[k].files,
                            LAMBDA key : key.relativePath \notin resolvedExcludedFiles)]]
    IN  With(Range(getFilesAccordingToDsl(
                 Flatten([k \in 1..Len(componentsWithFiles) |->
                            [i \in 1..Len(componentsWithFiles[k].files) |->
                                componentsWithFiles[k].files[i].relativePath]]),
                 exclude, gitIgnore)))

\* removeExcludedFiles: a component whose main file is excluded loses every
\* file, any other loses the excluded ones
removeExcludedFiles(componentsWithFiles, exclude, gitIgnore) ==
    LET With(resolvedExcludedFiles) ==
          [k \in 1..Len(componentsWithFiles) |->
              IF /\ componentsWithFiles[k].mainFile # <<>>
                 /\ PathOf(componentsWithFiles[k].mainFile) \in resolvedExcludedFiles
              THEN [componentsWithFiles[k] EXCEPT !.files = <<>>]
              ELSE [componentsWithFiles[k] EXCEPT !.files =
                      SelectSeq(componentsWithFiles[k].files,
                                LAMBDA key : key.relativePath \notin resolvedExcludedFiles)]]
    IN  With(Range(getFilesAccordingToDsl(
                 Flatten([k \in 1..Len(componentsWithFiles) |->
                            [i \in 1..Len(componentsWithFiles[k].files) |->
                                componentsWithFiles[k].files[i].relativePath]]),
                 exclude, gitIgnore)))

\* the files of several paths as one list: one entry per relativePath, a
\* test file if any of its entries is one
uniqComponents(files) ==
    LET keys == Uniq([i \in 1..Len(files) |-> files[i].relativePath])
    IN  [k \in 1..Len(keys) |->
            File(keys[k], \E i \in 1..Len(files) :
                              files[i].relativePath = keys[k] /\ files[i].test)]

\* the end of addOneComponent: the components that still have files, as one
joinComponents(componentId, componentsWithFiles) ==
    IF Len(componentsWithFiles) = 0
    THEN AddedComponent(componentId, <<>>, <<>>, NoPath)
    ELSE IF Len(componentsWithFiles) = 1 THEN componentsWithFiles[1]
    ELSE AddedComponent(componentId,
             uniqComponents(Flatten([k \in 1..Len(componentsWithFiles) |->
                                        componentsWithFiles[k].files])),
             componentsWithFiles[1].mainFile, componentsWithFiles[1].trackDir)

\* addOneComponent: [errs, comp]; errs holds the failure of every path that
\* fails (the paths are resolved concurrently, any of them may surface)
addOneComponent(bm, r, gitIgnore, paths) ==
    LET none == AddedComponent(NoId, <<>>, <<>>, NoPath)
        Join(finalBitId, results) ==
          IF \E i \in 1..Len(results) : results[i].err # NoErr
          THEN [errs |-> {results[i].err : i \in 1..Len(results)} \ {NoErr}, comp |-> none]
          ELSE [errs |-> {},
                comp |-> joinComponents(finalBitId,
                           SelectSeq(IF r.exclude # <<>>
                                     THEN removeExcludedFiles(
                                            [i \in 1..Len(results) |-> results[i].comp],
                                            r.exclude, gitIgnore)
                                     ELSE [i \in 1..Len(results) |-> results[i].comp],
                                     LAMBDA c : c.files # <<>>))]
        Paths(given, first) ==
          IF given.err # NoErr THEN [errs |-> {given.err}, comp |-> none]
          ELSE Join(first.id,
                    [i \in 1..Len(paths) |->
                        onePath(bm, r, gitIgnore, paths[i], Len(paths),
                                IF i = 1 THEN given.id ELSE first.id)])
        Given(given) ==
          Paths(given,
                IF given.id # NoId \/ given.err # NoErr \/ paths = <<>> THEN given
                ELSE getIdAccordingToExistingComponent(bm, idFromPath(r, paths[1]), r.id))
    IN  Given(IF r.id # NoId THEN getIdAccordingToExistingComponent(bm, r.id, r.id)
              ELSE [err |-> NoErr, id |-> NoId])

\* ------------------------------------------------ add(), up to the index
\* add() from the ignore list to componentPathsStats: [err, paths, gitIgnore].
\* withoutGitIgnore is the glob of every component path, gitIgnore the ignore
\* list with the resolved exclude patterns added.
expandPaths(bm, r) ==
    LET Validated(v, gitIgnore) ==
          [err |-> v.err, paths |-> v.stats, gitIgnore |-> gitIgnore]
        Decide(missingFiles, withoutGitIgnore, gitIgnore, withGitIgnore) ==
          IF missingFiles # {}
          THEN [err |-> PathsNotExist(missingFiles), paths |-> <<>>, gitIgnore |-> gitIgnore]
          ELSE IF ~(r.tests # <<>> /\ r.id # NoId) /\ withoutGitIgnore = <<>>
          THEN [err |-> PathsNotExist(Range(r.componentPaths)), paths |-> <<>>,
                gitIgnore |-> gitIgnore]
          ELSE IF withoutGitIgnore # <<>> /\ withGitIgnore = <<>>
          THEN [err |-> NoFiles(Range(withoutGitIgnore) \ Range(withGitIgnore)),
                paths |-> <<>>, gitIgnore |-> gitIgnore]
          ELSE Validated(
                 validatePaths(
                   IF withoutGitIgnore = <<>>
                   THEN Flatten([i \in 1..Len(r.tests) |->
                                   IF IsDsl(r.tests[i]) THEN <<>> ELSE glob(PathOf(r.tests[i]))])
                   ELSE withGitIgnore),
                 gitIgnore)
        Ignored(withoutGitIgnore, gitIgnore) ==
          Decide(getMissingTestFiles(r.tests), withoutGitIgnore, gitIgnore,
                 ignoreFilter(gitIgnore, withoutGitIgnore))
        Globbed(withoutGitIgnore, ignoreList) ==
          Ignored(withoutGitIgnore,
                  ignoreList \o Map(getFilesAccordingToDsl(withoutGitIgnore, r.exclude, ignoreList),
                                    Rule))
    IN  Globbed(Flatten(Map(r.componentPaths, glob)), getIgnoreList(bm))

\* a check that lets every list of components through
validateNoDuplicateIds_Off(addComponents) == NoErr

\* validateNoDuplicateIds: every id that more than one component has
validateNoDuplicateIds(addComponents) ==
    LET duplicateIds ==
          {addComponents[j].componentId : j \in
              {j \in 1..Len(addComponents) : \E k \in 1..Len(addComponents) :
                  k # j /\ addComponents[k].componentId = addComponents[j].componentId}}
    IN  IF duplicateIds # {} THEN DuplicateIds(duplicateIds) ELSE NoErr

\* a classification that splits several paths also when an id was given
isMultipleComponents_IgnoresId(r, paths) == Len(paths) > 1

\* isMultipleComponents
isMultipleComponents(r, paths) == Len(paths) > 1 /\ r.id = NoId

\* the path lists add() gives to addOneComponent: every path on its own when
\* there are several components (the test files among them taken out), else
\* all of them at once
pathGroups(r, paths, gitIgnore) ==
    IF isMultipleComponents(r, paths)
    THEN Map(SelectSeq(paths,
                 LAMBDA p : r.tests = <<>>
                            \/ p \notin Range(getFilesAccordingToDsl(paths, r.tests, gitIgnore))),
             LAMBDA p : <<p>>)
    ELSE <<paths>>

\* add() from componentPathsStats to the components it hands to
\* addOrUpdateComponentInBitMap: [errs, multiple, added]
resolveComponents(bm, r) ==
    LET Checked(multiple, added, dup) ==
          [errs |-> IF dup # NoErr THEN {dup} ELSE {}, multiple |-> multiple, added |-> added]
        Resolved(multiple, results) ==
          IF \E i \in 1..Len(results) : results[i].errs # {}
          THEN [errs |-> UNION {results[i].errs : i \in 1..Len(results)},
                multiple |-> multiple, added |-> <<>>]
          ELSE Checked(multiple, [i \in 1..Len(results) |-> results[i].comp],
                       IF multiple
                       THEN validateNoDuplicateIds([i \in 1..Len(results) |-> results[i].comp])
                       ELSE NoErr)
        Grouped(x, groups) ==
          Resolved(isMultipleComponents(r, x.paths),
                   [g \in 1..Len(groups) |-> addOneComponent(bm, r, x.gitIgnore, groups[g])])
        Expanded(x) ==
          IF x.err # NoErr THEN [errs |-> {x.err}, multiple |-> FALSE, added |-> <<>>]
          ELSE Grouped(x, pathGroups(r, x.paths, x.gitIgnore))
    IN  Expanded(expandPaths(bm, r))

\* ------------------------------------------- addOrUpdateComponentInBitMap
\* the source paths of the dependencies of a component of the scope, relative
\* to its root directory (componentFromModel.getAllDependenciesCloned())
dependenciesSourcePaths(id) ==
    IF id.box = <<"comp">> /\ id.name = <<"c">> THEN { << <<"dep","png">> >> } ELSE {}

\* _isGeneratedForUnsupportedFiles, the component model loaded
isGeneratedForUnsupportedFiles(fileRelativePath, componentId, componentMap) ==
    /\ ~isSupportedExtension(fileRelativePath)
    /\ fileRelativePath \in
         {componentMap.rootDir \o sp : sp \in dependenciesSourcePaths(componentId)}

\* a callback that lets a file owned by another imported identity through
fileVerdict_NoOwnerCheck(bm, r, componentId, file) ==
    LET foundComponentFromBitMap == getComponentIfExist(bm, componentId)
        existingIdOfFile == getComponentIdByPath(bm, file.relativePath)
        idOfFileIsDifferent == existingIdOfFile # NoId /\ existingIdOfFile # componentId
        existingComponentOfFile == getComponent(bm, existingIdOfFile)
        isImported == \/ foundComponentFromBitMap.origin = IMPORTED
                      \/ existingComponentOfFile.origin = IMPORTED
    IN  IF isAutoGeneratedFile(file.relativePath) THEN "drop"
        ELSE IF isImported
        THEN IF r.id = NoId THEN "missing" ELSE "await"
        ELSE IF idOfFileIsDifferent THEN "warn"
        ELSE "keep"

\* a callback that does not ask for an explicit id: a file with an imported
\* record behind it is treated as if the request carried one
fileVerdict_NoIdCheck(bm, r, componentId, file) ==
    LET foundComponentFromBitMap == getComponentIfExist(bm, componentId)
        existingIdOfFile == getComponentIdByPath(bm, file.relativePath)
        idOfFileIsDifferent == existingIdOfFile # NoId /\ existingIdOfFile # componentId
        existingComponentOfFile == getComponent(bm, existingIdOfFile)
        isImported == \/ foundComponentFromBitMap.origin = IMPORTED
                      \/ existingComponentOfFile.origin = IMPORTED
    IN  IF isAutoGeneratedFile(file.relativePath) THEN "drop"
        ELSE IF isImported
        THEN IF idOfFileIsDifferent THEN "incorrect" ELSE "await"
        ELSE IF idOfFileIsDifferent THEN "warn"
        ELSE "keep"

\* a callback that treats an auto-generated file like any other file
fileVerdict_AutoGeneratedChecked(bm, r, componentId, file) ==
    LET foundComponentFromBitMap == getComponentIfExist(bm, componentId)
        existingIdOfFile == getComponentIdByPath(bm, file.relativePath)
        idOfFileIsDifferent == existingIdOfFile # NoId /\ existingIdOfFile # componentId
        existingComponentOfFile == getComponent(bm, existingIdOfFile)
        isImported == \/ foundComponentFromBitMap.origin = IMPORTED
                      \/ existingComponentOfFile.origin = IMPORTED
    IN  IF isImported
        THEN IF r.id = NoId THEN "missing"
             ELSE IF idOfFileIsDifferent THEN "incorrect"
             ELSE "await"
        ELSE IF idOfFileIsDifferent THEN "warn"
        ELSE "keep"

\* what the callback of addOrUpdateComponentInBitMap does with one file up to
\* its first await: "drop", "missing", "incorrect", "await", "warn" or "keep"
fileVerdict(bm, r, componentId, file) ==
    LET foundComponentFromBitMap == getComponentIfExist(bm, componentId)
        existingIdOfFile == getComponentIdByPath(bm, file.relativePath)
        idOfFileIsDifferent == existingIdOfFile # NoId /\ existingIdOfFile # componentId
        existingComponentOfFile == getComponent(bm, existingIdOfFile)
        isImported == \/ foundComponentFromBitMap.origin = IMPORTED
                      \/ existingComponentOfFile.origin = IMPORTED
    IN  IF isAutoGeneratedFile(file.relativePath) THEN "drop"
        ELSE IF isImported
        THEN IF r.id = NoId THEN "missing"
             ELSE IF idOfFileIsDifferent THEN "incorrect"
             ELSE "await"
        ELSE IF idOfFileIsDifferent THEN "warn"
        ELSE "keep"

\* the error the callback throws for a file, NoErr when it throws none
fileError(bm, r, componentId, file) ==
    LET v == fileVerdict(bm, r, componentId, file)
    IN  IF v = "missing"
        THEN MissingComponentIdForImportedComponent(toStringWithoutVersion(componentId))
        ELSE IF v = "incorrect"
        THEN IncorrectIdForImportedComponent(
                 toStringWithoutVersion(getComponentIdByPath(bm, file.relativePath)),
                 r.id, file.relativePath)
        ELSE NoErr

\* the rejection of Promise.all(componentFilesP): the first file that throws
componentError(bm, r, component) ==
    LET i == FirstIndex(component.files,
                        LAMBDA f : fileError(bm, r, component.componentId, f) # NoErr)
    IN  IF i = 0 THEN NoErr ELSE fileError(bm, r, component.componentId, component.files[i])

\* a reconciliation that files the warning under the component being added
componentWarnings_UnderNewId(bm, r, component) ==
    Map(SelectSeq(component.files,
                  LAMBDA f : fileVerdict(bm, r, component.componentId, f) = "warn"),
        LAMBDA f : [id |-> component.componentId, file |-> f.relativePath])

\* the warnings the callbacks push: [id, file], the owner and the path
componentWarnings(bm, r, component) ==
    Map(SelectSeq(component.files,
                  LAMBDA f : fileVerdict(bm, r, component.componentId, f) = "warn"),
        LAMBDA f : [id |-> getComponentIdByPath(bm, f.relativePath), file |-> f.relativePath])

\* the files that wait for _isGeneratedForUnsupportedFiles
awaitedFiles(bm, r, component) ==
    SelectSeq(component.files,
              LAMBDA f : fileVerdict(bm, r, component.componentId, f) = "await")

\* componentFiles: the files the callbacks return, the nulls filtered out
componentFiles(bm, r, component) ==
    LET Kept(f) ==
          LET v == fileVerdict(bm, r, component.componentId, f)
          IN  \/ v = "keep"
              \/ /\ v = "await"
                 /\ ~isGeneratedForUnsupportedFiles(f.relativePath, component.componentId,
                                                    getComponentIfExist(bm, component.componentId))
    IN  SelectSeq(component.files, Kept)

\* delete component.trackDir: an awaited file that is kept unsets it
trackDirAfter(bm, r, component) ==
    IF \E i \in 1..Len(component.files) :
          /\ fileVerdict(bm, r, component.componentId, component.files[i]) = "await"
          /\ component.files[i] \in Range(componentFiles(bm, r, component))
    THEN NoPath ELSE component.trackDir

\* ---------------------------------------------------- writes to the index
\* bitMap.addComponent: a new record, or the files of the existing one
\* replaced (override) or merged; the record it returns is the one stored
addComponent(bm, componentId, files, mainFile, trackDir, origin, override) ==
    LET i == FirstIndex(bm, LAMBDA c : c.id = componentId)
        old == bm[i]
        new == IF i = 0
               THEN ComponentMap(componentId, origin, NoPath, files, mainFile, trackDir)
               ELSE [old EXCEPT
                       !.files = IF override THEN files ELSE mergeFiles(files, old.files),
                       !.mainFile = IF mainFile # <<>> THEN mainFile ELSE old.mainFile,
                       !.trackDir = IF trackDir # NoPath THEN trackDir ELSE old.trackDir]
    IN  [bm |-> IF i = 0 THEN Append(bm, new) ELSE [bm EXCEPT ![i] = new],
         componentMap |-> new]

\* bitMap.addFilesToComponent: the files merged into the record of the id
addFilesToComponent(bm, componentId, files) ==
    LET i == FirstIndex(bm, LAMBDA c : c.id = componentId)
        old == bm[i]
        new == IF i = 0
               THEN ComponentMap(componentId, AUTHORED, NoPath, files, <<>>, NoPath)
               ELSE [old EXCEPT !.files = mergeFiles(files, old.files)]
    IN  [bm |-> IF i = 0 THEN Append(bm, new) ELSE [bm EXCEPT ![i] = new],
         componentMap |-> new]

\* the call addToBitMap makes, as the index sees it
IndexCall(method, component, override) ==
    [method |-> method, componentId |-> component.componentId,
     files |-> component.files,
     mainFile |-> IF method = "addComponent" THEN component.mainFile ELSE <<>>,
     trackDir |-> IF method = "addComponent" THEN component.trackDir ELSE NoPath,
     override |-> override]

\* addToBitMap: [bm, call, result]
addToBitMap(bm, r, component) ==
    LET w == IF r.trackDirFeature
             THEN addFilesToComponent(bm, component.componentId, component.files)
             ELSE addComponent(bm, component.componentId, component.files,
                               component.mainFile, component.trackDir, AUTHORED, r.override)
    IN  [bm |-> w.bm,
         call |-> IndexCall(IF r.trackDirFeature THEN "addFilesToComponent" ELSE "addComponent",
                            component, r.override),
         result |-> [id |-> component.componentId, files |-> w.componentMap.files]]

\* ------------------------------------------------------------------- inputs
IdX == BitId("", <<"other">>, <<"x">>, "")
IdA == BitId("", <<"src">>, <<"a">>, "")
IdC == BitId("sc", <<"comp">>, <<"c">>, "0.0.1")

pA == << <<"src">>, <<"a">> >>
pAjs == << <<"src">>, <<"a">>, <<"a","js">> >>
pAspec == << <<"src">>, <<"a">>, <<"a","spec","js">> >>
pTopAjs == << <<"src">>, <<"a","js">> >>
pAgen == << <<"src">>, <<"a">>, <<"gen","js">> >>
pB == << <<"src">>, <<"b">> >>
pBjs == << <<"src">>, <<"b">>, <<"b","js">> >>
pBstar == << <<"src">>, <<"b">>, <<"*">> >>
pC == << <<"comp">>, <<"c">> >>
pCjs == << <<"comp">>, <<"c">>, <<"c","js">> >>
pCdep == << <<"comp">>, <<"c">>, <<"dep","png">> >>
pClink == << <<"comp">>, <<"c">>, <<"link","js">> >>
pE == << <<"src">>, <<"e">> >>
pElog == << <<"src">>, <<"e">>, <<"e","log">> >>
pNope == << <<"src">>, <<"nope">> >>
pTest == << <<"src">>, <<"test">> >>
pShared == << <<"src">>, <<"test">>, <<"shared","spec","js">> >>

\* the index a behaviour starts from: no file has two owners
IndexStates == {
    <<>>,
    << ComponentMap(IdX, AUTHORED, NoPath, <<File(pAjs, FALSE), File(pAgen, FALSE)>>,
                    Lit(pAjs), NoPath) >>,
    << ComponentMap(IdC, IMPORTED, pC, <<File(pCjs, FALSE), File(pClink, FALSE)>>,
                    Lit(pCjs), NoPath) >>,
    << ComponentMap(IdA, AUTHORED, NoPath, <<File(pAjs, FALSE), File(pAspec, TRUE)>>,
                    Lit(pAjs), pA) >>,
    << ComponentMap(IdX, AUTHORED, NoPath, <<File(pAjs, FALSE), File(pAgen, FALSE)>>,
                    Lit(pAjs), NoPath),
       ComponentMap(IdC, IMPORTED, pC, <<File(pCjs, FALSE), File(pClink, FALSE)>>,
                    Lit(pCjs), NoPath) >>,
    << ComponentMap(IdX, AUTHORED, NoPath, <<File(pCdep, FALSE)>>, Lit(pCdep), NoPath),
       ComponentMap(IdC, IMPORTED, pC, <<File(pCjs, FALSE), File(pClink, FALSE)>>,
                    Lit(pCjs), NoPath) >> }

PathLists == {
    <<pA>>, <<pAjs>>, <<pBstar>>, <<pA, pB>>, <<pAjs, pBjs>>, <<pNope>>,
    <<pAjs, pNope>>, <<pCjs>>, <<pC>>, <<pClink>>, <<pE>>, <<pElog>>, <<pAjs, pCjs>>,
    <<pAjs, pAspec>>, <<pA, pTopAjs>>, <<pCdep>> }

Ids == { NoId, BitId("", <<"my">>, <<"comp">>, ""), BitId("", <<"comp">>, <<"c">>, ""),
         BitId("", <<"comp">>, <<"c">>, "0.0.1"), BitId("", <<"comp">>, <<"c">>, "0.0.2") }

Mains == { <<>>, Lit(pAjs), Lit(Append(pA, <<"nope","js">>)), Lit(pElog), Lit(pB),
           <<L(<<"src">>), PARENT, FILE_NAME(<<"js">>)>> }

Namespaces == { <<>>, <<"ns">> }

TestLists == { <<>>, <<Lit(pShared)>>,
               << <<L(<<"src">>), PARENT, FILE_NAME(<<"spec","js">>)>> >>,
               <<Lit(pTest)>>, <<Lit(Append(pTest, <<"nope","js">>))>> }

ExcludeLists == { <<>>, <<Lit(pAspec)>>,
                  << <<L(<<"src">>), PARENT, FILE_NAME(<<"js">>)>> >>,
                  << <<L(<<"src">>), PARENT, L(<<"a","js">>)>> >> }

Origins == { AUTHORED, IMPORTED }

\* how many optional fields of a request are set
NumOptions(r) ==
    (IF r.id # NoId THEN 1 ELSE 0) + (IF r.main # <<>> THEN 1 ELSE 0)
    + (IF r.namespace # <<>> THEN 1 ELSE 0) + (IF r.tests # <<>> THEN 1 ELSE 0)
    + (IF r.exclude # <<>> THEN 1 ELSE 0) + (IF r.override THEN 1 ELSE 0)
    + (IF r.trackDirFeature THEN 1 ELSE 0) + (IF r.origin # AUTHORED THEN 1 ELSE 0)

Requests ==
    {r \in [componentPaths : PathLists, id : Ids, main : Mains, namespace : Namespaces,
            tests : TestLists, exclude : ExcludeLists, override : BOOLEAN,
            trackDirFeature : BOOLEAN, origin : Origins] : NumOptions(r) <= MaxOptions}

\* -------------------------------------------------------------------- state
VARIABLES
    stored,           \* the index as last written to disk (consumer.onDestroy)
    bitMap,           \* consumer.bitMap, the index in memory
    bitMap0,          \* the index the running invocation started from
    pc,               \* "idle", "resolved", "checked", "done"
    req,              \* the AddProps of the running invocation
    multiple,         \* isMultipleComponents
    added,            \* the components handed to addOrUpdateComponentInBitMap
    warnings,         \* this.warnings, as the sequence of [id, file] pushed
    addedComponents,  \* the AddResult list
    err,              \* the failure add() ends with, NoErr when none
    indexCalls,       \* the calls made to the index by this invocation
    nAdds,            \* invocations started
    first,            \* what the first invocation returned
    batch,            \* addMany: the AddComponents instances and how far each add() is
    addResults,       \* addMany: the results pushed so far
    manyOutcome,      \* addMany: what its promise has settled with, if it has
    addContext        \* how often the consumer was loaded and destroyed

vars == <<stored, bitMap, bitMap0, pc, req, multiple, added, warnings,
          addedComponents, err, indexCalls, nAdds, first, batch, addResults, manyOutcome,
          addContext>>

\* the promise of addMany: state is "idle" (not called), "pending",
\* "rejected" (with err) or "resolved" (with results)
ManyOutcome(state, e, results) == [state |-> state, err |-> e, results |-> results]

\* the workspace context of addOne and addMany: how many times loadConsumer
\* has opened it and consumer.onDestroy has closed it
AddContext(opened, closed) == [opened |-> opened, closed |-> closed]

NoRequest == AddProps(<<>>, NoId, <<>>, <<>>, <<>>, <<>>, FALSE, FALSE, AUTHORED)

Outcome(e, a, w) == [err |-> e, addedComponents |-> a, warnings |-> w]

Init ==
    /\ stored \in IndexStates
    /\ bitMap = stored
    /\ bitMap0 = stored
    /\ pc = "idle"
    /\ req = NoRequest
    /\ multiple = FALSE
    /\ added = <<>>
    /\ warnings = <<>>
    /\ addedComponents = <<>>
    /\ err = NoErr
    /\ indexCalls = <<>>
    /\ nAdds = 0
    /\ first = Outcome(NoErr, <<>>, <<>>)
    /\ batch = <<>>
    /\ addResults = <<>>
    /\ manyOutcome = ManyOutcome("idle", NoErr, <<>>)
    /\ addContext = AddContext(0, 0)

\* a component on its way through addOrUpdateComponentInBitMap: resolved is
\* the file list it came with, st one of "empty" (no files, never handed
\* over), "resolved", "checked", "failed", "written", "dropped"
InFlight(c) ==
    [componentId |-> c.componentId, resolved |-> c.files, files |-> c.files,
     mainFile |-> c.mainFile, trackDir |-> c.trackDir,
     st |-> IF c.files = <<>> THEN "empty" ELSE "resolved", loads |-> FALSE]

\* addOne: loadConsumer, new AddComponents, add() up to validateNoDuplicateIds
\* (or to the single addOneComponent)
Start(r) ==
    LET Go(res) ==
          /\ \E e \in (IF res.errs = {} THEN {NoErr} ELSE res.errs) :
                /\ err' = e
                /\ pc' = IF e = NoErr THEN "resolved" ELSE "done"
          /\ multiple' = res.multiple
          /\ added' = Map(res.added, InFlight)
    IN  /\ Go(resolveComponents(stored, r))
        /\ req' = r
        /\ bitMap' = stored
        /\ bitMap0' = stored
        /\ warnings' = <<>>
        /\ addedComponents' = <<>>
        /\ indexCalls' = <<>>
        /\ nAdds' = nAdds + 1
        /\ first' = IF nAdds = 1 THEN Outcome(err, addedComponents, warnings) ELSE first
        /\ addContext' = AddContext(addContext.opened + 1, addContext.closed)
        /\ UNCHANGED <<stored, batch, addResults, manyOutcome>>

\* the first invocation of a behaviour, with any request
AddFirst ==
    /\ pc = "idle"
    /\ \E r \in Requests : Start(r)

\* the same request again, in a new process
AddAgain ==
    /\ pc = "done"
    /\ nAdds < MaxAdds
    /\ Start(req)

\* addOrUpdateComponentInBitMap up to its first await, for every component in
\* turn: the callbacks of files.map run, no write has happened yet
Check ==
    /\ pc = "resolved"
    /\ LET One(c) ==
              IF c.st # "resolved" THEN c
              ELSE IF componentError(bitMap, req, c) # NoErr THEN [c EXCEPT !.st = "failed"]
              ELSE [c EXCEPT !.st = "checked",
                             !.files = componentFiles(bitMap, req, c),
                             !.trackDir = trackDirAfter(bitMap, req, c),
                             !.loads = \E f \in Range(awaitedFiles(bitMap, req, c)) :
                                          ~isSupportedExtension(f.relativePath)]
           handed == SelectSeq(added, LAMBDA c : c.st = "resolved")
           i == FirstIndex(handed, LAMBDA c : componentError(bitMap, req, c) # NoErr)
       IN  /\ added' = Map(added, One)
           /\ warnings' = warnings
                 \o Flatten(Map(handed, LAMBDA c : componentWarnings(bitMap, req, c)))
           /\ err' = IF i = 0 THEN NoErr ELSE componentError(bitMap, req, handed[i])
    /\ pc' = "checked"
    /\ UNCHANGED <<stored, bitMap, bitMap0, req, multiple, addedComponents, indexCalls,
                   nAdds, first, batch, addResults, manyOutcome, addContext>>

\* a write that does not look at the file list before it calls the index
Write_AlsoEmpty(i) ==
    /\ pc = "checked"
    /\ added[i].st = "checked"
    /\ LET w == addToBitMap(bitMap, req, added[i])
       IN  /\ bitMap' = w.bm
           /\ indexCalls' = Append(indexCalls, w.call)
           /\ addedComponents' = Append(addedComponents, w.result)
           /\ added' = [added EXCEPT ![i].st = "written"]
    /\ UNCHANGED <<stored, bitMap0, pc, req, multiple, warnings, err, nAdds, first, batch,
                   addResults, manyOutcome, addContext>>

\* the rest of addOrUpdateComponentInBitMap for one component: nothing when no
\* file is left, else addToBitMap and the push to addedComponents
Write(i) ==
    /\ pc = "checked"
    /\ added[i].st = "checked"
    /\ IF added[i].files = <<>>
       THEN /\ added' = [added EXCEPT ![i].st = "dropped"]
            /\ UNCHANGED <<bitMap, indexCalls, addedComponents>>
       ELSE LET w == addToBitMap(bitMap, req, added[i])
            IN  /\ bitMap' = w.bm
                /\ indexCalls' = Append(indexCalls, w.call)
                /\ addedComponents' = Append(addedComponents, w.result)
                /\ added' = [added EXCEPT ![i].st = "written"]
    /\ UNCHANGED <<stored, bitMap0, pc, req, multiple, warnings, err, nAdds, first, batch,
                   addResults, manyOutcome, addContext>>

\* a failed load that lets the component through to addToBitMap all the same
LoadComponentFails_StillWrites(i) ==
    /\ pc = "checked"
    /\ added[i].st = "checked"
    /\ added[i].loads
    /\ LET w == addToBitMap(bitMap, req, added[i])
       IN  /\ bitMap' = w.bm
           /\ indexCalls' = Append(indexCalls, w.call)
           /\ addedComponents' = Append(addedComponents, w.result)
    /\ added' = [added EXCEPT ![i].st = "failed"]
    /\ err' = IF err = NoErr THEN UncategorizedError ELSE err
    /\ UNCHANGED <<stored, bitMap0, pc, req, multiple, warnings, nAdds, first, batch,
                   addResults, manyOutcome, addContext>>

\* loadComponentFromModel fails for a file _isGeneratedForUnsupportedFiles
\* looks up: the component is never written
LoadComponentFails(i) ==
    /\ pc = "checked"
    /\ added[i].st = "checked"
    /\ added[i].loads
    /\ added' = [added EXCEPT ![i].st = "failed"]
    /\ err' = IF err = NoErr THEN UncategorizedError ELSE err
    /\ UNCHANGED <<stored, bitMap, bitMap0, pc, req, multiple, warnings, addedComponents,
                   indexCalls, nAdds, first, batch, addResults, manyOutcome, addContext>>

\* add() settles; addOne writes the index back only when add() did not throw
Finish ==
    /\ pc = "checked"
    /\ \A i \in 1..Len(added) : added[i].st # "checked"
    /\ pc' = "done"
    /\ stored' = IF err = NoErr THEN bitMap ELSE stored
    /\ addContext' = IF err = NoErr
                     THEN AddContext(addContext.opened, addContext.closed + 1)
                     ELSE addContext
    /\ UNCHANGED <<bitMap, bitMap0, req, multiple, added, warnings, addedComponents, err,
                   indexCalls, nAdds, first, batch, addResults, manyOutcome>>

Next ==
    \/ AddFirst
    \/ AddAgain
    \/ Check
    \/ \E i \in 1..Len(added) : Write(i)
    \/ \E i \in 1..Len(added) : LoadComponentFails(i)
    \/ Finish

Spec == Init /\ [][Next]_vars

\* ------------------------------------------------------------------ addMany
\* One consumer and one index in memory for every request of the batch; each
\* add() runs as in addOne, its steps interleaved with those of the others.
MaxBatch == 2

\* the requests a batch is made of
BatchRequests ==
    {r \in Requests :
        \/ /\ NumOptions(r) = 0
           /\ r.componentPaths \in {<<pAjs>>, <<pA>>, <<pNope>>, <<pCjs>>, <<pA, pTopAjs>>}
        \/ /\ NumOptions(r) = 1
           /\ BareEqual(r.id, IdC) /\ ~hasVersion(r.id)
           /\ r.componentPaths = <<pC>>}

\* an AddComponents instance of the batch and the state of its add(): pc is
\* "start", "resolved", "checked", "fulfilled" or "rejected"
Member(r) ==
    [req |-> r, pc |-> "start", multiple |-> FALSE, added |-> <<>>, warnings |-> <<>>,
     addedComponents |-> <<>>, err |-> NoErr]

\* a rejection that Promise.all does not pass on
reject_Swallowed(outcome, e) == outcome

\* Promise.all: the first rejection settles it, a later one changes nothing
reject(outcome, e) ==
    IF outcome.state = "pending" /\ e # NoErr THEN ManyOutcome("rejected", e, <<>>)
    ELSE outcome

\* addMany up to Promise.all: loadConsumer and one AddComponents per request
AddMany ==
    /\ manyOutcome.state = "idle"
    /\ \E n \in 1..MaxBatch : \E rs \in [1..n -> BatchRequests] :
          batch' = [k \in 1..n |-> Member(rs[k])]
    /\ manyOutcome' = ManyOutcome("pending", NoErr, <<>>)
    /\ addContext' = AddContext(addContext.opened + 1, addContext.closed)
    /\ bitMap' = stored
    /\ bitMap0' = stored
    /\ UNCHANGED <<stored, indexCalls, addResults, pc, req, multiple, added, warnings,
                   addedComponents, err, nAdds, first>>

\* add() of request n up to validateNoDuplicateIds (or to the single
\* addOneComponent), against the index as the other requests have left it
ManyResolve(n) ==
    /\ batch[n].pc = "start"
    /\ LET Go(res) ==
             \E e \in (IF res.errs = {} THEN {NoErr} ELSE res.errs) :
                /\ batch' = [batch EXCEPT ![n].err = e,
                                          ![n].pc = IF e = NoErr THEN "resolved" ELSE "rejected",
                                          ![n].multiple = res.multiple,
                                          ![n].added = Map(res.added, InFlight)]
                /\ manyOutcome' = reject(manyOutcome, e)
       IN  Go(resolveComponents(bitMap, batch[n].req))
    /\ UNCHANGED <<stored, bitMap, bitMap0, indexCalls, addResults, pc, req, multiple, added,
                   warnings, addedComponents, err, nAdds, first, addContext>>

\* addOrUpdateComponentInBitMap of request n up to its first await, for every
\* component in turn; a failure rejects add() at once, the writes of the
\* other components still follow
ManyCheck(n) ==
    /\ batch[n].pc = "resolved"
    /\ LET m == batch[n]
           One(c) ==
              IF c.st # "resolved" THEN c
              ELSE IF componentError(bitMap, m.req, c) # NoErr THEN [c EXCEPT !.st = "failed"]
              ELSE [c EXCEPT !.st = "checked",
                             !.files = componentFiles(bitMap, m.req, c),
                             !.trackDir = trackDirAfter(bitMap, m.req, c),
                             !.loads = \E f \in Range(awaitedFiles(bitMap, m.req, c)) :
                                          ~isSupportedExtension(f.relativePath)]
           handed == SelectSeq(m.added, LAMBDA c : c.st = "resolved")
           i == FirstIndex(handed, LAMBDA c : componentError(bitMap, m.req, c) # NoErr)
           e == IF i = 0 THEN NoErr ELSE componentError(bitMap, m.req, handed[i])
       IN  /\ batch' = [batch EXCEPT
                          ![n].pc = "checked",
                          ![n].added = Map(m.added, One),
                          ![n].warnings = m.warnings
                              \o Flatten(Map(handed,
                                             LAMBDA c : componentWarnings(bitMap, m.req, c))),
                          ![n].err = e]
           /\ manyOutcome' = reject(manyOutcome, e)
    /\ UNCHANGED <<stored, bitMap, bitMap0, indexCalls, addResults, pc, req, multiple, added,
                   warnings, addedComponents, err, nAdds, first, addContext>>

\* the rest of addOrUpdateComponentInBitMap for component i of request n
ManyWrite(n, i) ==
    /\ batch[n].pc = "checked"
    /\ batch[n].added[i].st = "checked"
    /\ IF batch[n].added[i].files = <<>>
       THEN /\ batch' = [batch EXCEPT ![n].added[i].st = "dropped"]
            /\ UNCHANGED <<bitMap, indexCalls>>
       ELSE LET w == addToBitMap(bitMap, batch[n].req, batch[n].added[i])
            IN  /\ bitMap' = w.bm
                /\ indexCalls' = Append(indexCalls, w.call)
                /\ batch' = [batch EXCEPT
                               ![n].added[i].st = "written",
                               ![n].addedComponents = Append(@, w.result)]
    /\ UNCHANGED <<stored, bitMap0, addResults, manyOutcome, pc, req, multiple, added,
                   warnings, addedComponents, err, nAdds, first, addContext>>

\* loadComponentFromModel fails for component i of request n
ManyLoadComponentFails(n, i) ==
    /\ batch[n].pc = "checked"
    /\ batch[n].added[i].st = "checked"
    /\ batch[n].added[i].loads
    /\ batch' = [batch EXCEPT ![n].added[i].st = "failed",
                              ![n].err = IF @ = NoErr THEN UncategorizedError ELSE @]
    /\ manyOutcome' = reject(manyOutcome, UncategorizedError)
    /\ UNCHANGED <<stored, bitMap, bitMap0, indexCalls, addResults, pc, req, multiple, added,
                   warnings, addedComponents, err, nAdds, first, addContext>>

\* add() of request n settles: its result is pushed when it did not throw
ManyFinish(n) ==
    /\ batch[n].pc = "checked"
    /\ \A i \in 1..Len(batch[n].added) : batch[n].added[i].st # "checked"
    /\ batch' = [batch EXCEPT ![n].pc = IF batch[n].err = NoErr THEN "fulfilled" ELSE "rejected"]
    /\ addResults' = IF batch[n].err = NoErr
                     THEN Append(addResults, [request |-> n,
                                              addedComponents |-> batch[n].addedComponents,
                                              warnings |-> batch[n].warnings])
                     ELSE addResults
    /\ UNCHANGED <<stored, bitMap, bitMap0, indexCalls, manyOutcome, pc, req, multiple, added,
                   warnings, addedComponents, err, nAdds, first, addContext>>

\* a return that waits for one add() only
ManyReturn_AfterAny ==
    /\ manyOutcome.state = "pending"
    /\ \E n \in 1..Len(batch) : batch[n].pc = "fulfilled"
    /\ stored' = bitMap
    /\ manyOutcome' = ManyOutcome("resolved", NoErr, addResults)
    /\ addContext' = AddContext(addContext.opened, addContext.closed + 1)
    /\ UNCHANGED <<bitMap, bitMap0, indexCalls, batch, addResults, pc, req, multiple, added,
                   warnings, addedComponents, err, nAdds, first>>

\* Promise.all resolves: consumer.onDestroy writes the index, addResults is
\* returned
ManyReturn ==
    /\ manyOutcome.state = "pending"
    /\ \A n \in 1..Len(batch) : batch[n].pc = "fulfilled"
    /\ stored' = bitMap
    /\ manyOutcome' = ManyOutcome("resolved", NoErr, addResults)
    /\ addContext' = AddContext(addContext.opened, addContext.closed + 1)
    /\ UNCHANGED <<bitMap, bitMap0, indexCalls, batch, addResults, pc, req, multiple, added,
                   warnings, addedComponents, err, nAdds, first>>

NextMany ==
    \/ AddMany
    \/ \E n \in 1..Len(batch) : ManyResolve(n)
    \/ \E n \in 1..Len(batch) : ManyCheck(n)
    \/ \E n \in 1..Len(batch) : \E i \in 1..Len(batch[n].added) : ManyWrite(n, i)
    \/ \E n \in 1..Len(batch) : \E i \in 1..Len(batch[n].added) : ManyLoadComponentFails(n, i)
    \/ \E n \in 1..Len(batch) : ManyFinish(n)
    \/ ManyReturn

SpecMany == Init /\ [][NextMany]_vars

\* ------------------------------------------------------------ properties
\* an invocation has settled, with or without a failure
Settled == pc = "done"

\* the invocation ran to its end without a failure
Succeeded == pc = "done" /\ err = NoErr

\* an input path that is no glob pattern and names nothing on disk
InputPathMissing(p) == <<"*">> \notin Range(p) /\ ~existsSync(p)

MissingInputPaths(r) == {p \in Range(r.componentPaths) : InputPathMissing(p)}

\* C10: when an input path does not exist on disk, the add fails with
\* PathsNotExist carrying every missing input path, also when other input
\* paths exist. Stated for a request that names paths and nothing else.
C10_MissingPathsReported ==
    (Settled /\ NumOptions(req) = 0 /\ MissingInputPaths(req) # {})
        => err = PathsNotExist(MissingInputPaths(req))

\* the second invocation of a behaviour has settled
SecondSettled == pc = "done" /\ nAdds = 2

\* an AddResult list as the set of its entries, each with its files as a set
ResultSet(a) == {[id |-> x.id, files |-> Range(x.files)] : x \in Range(a)}

\* C1: add called twice in succession with the same request on an unchanged
\* disk: the second call returns the addedComponents of the first (the same
\* identities with the same file entries) and no warning the first call did
\* not give. Stated for two calls that both settle without a failure.
C1_SecondAddSameResult ==
    (SecondSettled /\ first.err = NoErr /\ err = NoErr)
        => /\ ResultSet(addedComponents) = ResultSet(first.addedComponents)
           /\ Len(addedComponents) = Len(first.addedComponents)
           /\ Range(warnings) \subseteq Range(first.warnings)

\* the ownership checks of the running invocation have run
Reconciled == pc \in {"checked", "done"} /\ \E i \in 1..Len(added) : added[i].st # "resolved"

\* the components handed to addOrUpdateComponentInBitMap
HandedOver == {i \in 1..Len(added) : added[i].st \notin {"empty", "resolved"}}

\* the owner of a path in the index the invocation started from
OwnerOf(p) == getComponentIdByPath(bitMap0, p)

\* file f of component c is tracked under another identity, and neither that
\* identity's record nor the record of the component itself is imported
OwnedByOtherAuthored(c, f) ==
    /\ OwnerOf(f.relativePath) # NoId
    /\ OwnerOf(f.relativePath) # c.componentId
    /\ getComponent(bitMap0, OwnerOf(f.relativePath)).origin # IMPORTED
    /\ getComponentIfExist(bitMap0, c.componentId).origin # IMPORTED

\* file g of component c makes the reconciliation ask for an explicit id
ImportedInvolved(c, g) ==
    /\ ~isAutoGeneratedFile(g.relativePath)
    /\ \/ getComponentIfExist(bitMap0, c.componentId).origin = IMPORTED
       \/ getComponent(bitMap0, OwnerOf(g.relativePath)).origin = IMPORTED

\* no call to the index of this invocation hands it path p for identity id
NotWrittenFor(id, p) ==
    \A k \in 1..Len(indexCalls) :
        indexCalls[k].componentId = id => p \notin PathsOf(indexCalls[k].files)

\* the file is left out, warned about under its owner, and no failure comes
\* from it: a failure of the reconciliation needs an imported record
DroppedWithWarning(c, f) ==
    /\ NotWrittenFor(c.componentId, f.relativePath)
    /\ [id |-> OwnerOf(f.relativePath), file |-> f.relativePath] \in Range(warnings)
    /\ \/ err \in {NoErr, UncategorizedError}
       \/ \E j \in HandedOver : \E g \in Range(added[j].resolved) :
              ImportedInvolved(added[j], g)

\* C2 as stated: every file of a reconciled component Y that the index has
\* under a different identity X, neither record imported, is left out of
\* what is written for Y, is appended to the warnings of X, and does not
\* make the add fail.
C2_OwnedFileDroppedWithWarning ==
    Reconciled =>
        \A i \in HandedOver : \A f \in Range(added[i].resolved) :
            OwnedByOtherAuthored(added[i], f) => DroppedWithWarning(added[i], f)

\* C2, amended: the same for every such file that is not auto-generated (an
\* auto-generated file is left out before the owner is looked up, without a
\* warning).
C2_OwnedSourceFileDroppedWithWarning ==
    Reconciled =>
        \A i \in HandedOver : \A f \in Range(added[i].resolved) :
            (OwnedByOtherAuthored(added[i], f) /\ ~isAutoGeneratedFile(f.relativePath))
                => DroppedWithWarning(added[i], f)

\* a settled add that dropped a file of another authored identity, warned
\* about it and still wrote the rest of the component
C2_Witness ==
    /\ Succeeded
    /\ \E i \in HandedOver :
          /\ added[i].st = "written"
          /\ \E f \in Range(added[i].resolved) :
                /\ OwnedByOtherAuthored(added[i], f)
                /\ ~isAutoGeneratedFile(f.relativePath)
                /\ [id |-> OwnerOf(f.relativePath), file |-> f.relativePath] \in Range(warnings)

\* component i was handed over with a file that has an imported record behind
\* it (its owner's, or the one of the component's own identity)
HasImportedFile(i) == \E f \in Range(added[i].resolved) : ImportedInvolved(added[i], f)

\* nothing of the invocation reached the index for this identity
NeverWritten(i) ==
    /\ added[i].st = "failed"
    /\ \A k \in 1..Len(indexCalls) : indexCalls[k].componentId # added[i].componentId
    /\ getComponent(bitMap, added[i].componentId) = getComponent(bitMap0, added[i].componentId)

\* C3: when add reconciles a file that is not auto-generated and is owned by
\* an imported identity, or whose component is in the index as imported, and
\* the request has no explicit id, the add fails with
\* MissingComponentIdForImportedComponent and the component is not written
\* (nor is anything saved once the add has settled).
C3_MissingIdForImported ==
    (Reconciled /\ req.id = NoId) =>
        \A i \in HandedOver :
            HasImportedFile(i) =>
                /\ err.kind = "MissingComponentIdForImportedComponent"
                /\ NeverWritten(i)
                /\ Settled => stored = bitMap0

\* a settled add without id of a file that an imported component tracks
C3_Witness ==
    /\ Settled /\ req.id = NoId
    /\ \E i \in HandedOver : HasImportedFile(i)
    /\ err = MissingComponentIdForImportedComponent(toStringWithoutVersion(added[1].componentId))

\* file f of component c is tracked under an imported identity that is not
\* the one the request resolved to
OwnedByOtherImported(c, f) ==
    /\ OwnerOf(f.relativePath) # NoId
    /\ OwnerOf(f.relativePath) # c.componentId
    /\ getComponent(bitMap0, OwnerOf(f.relativePath)).origin = IMPORTED

\* the failure is IncorrectIdForImportedComponent for file f of component c:
\* the owner without its version, the id of the request, the path
IncorrectIdFor(c, f) ==
    err = IncorrectIdForImportedComponent(
              toStringWithoutVersion(OwnerOf(f.relativePath)), req.id, f.relativePath)

\* the files of a resolved component, whether or not it was handed over
ResolvedWith(i, P(_)) == \E f \in Range(added[i].resolved) : P(f)

\* C4 as stated: with an explicit id, a file being added that an imported
\* identity other than the resolved one owns makes the add fail with
\* IncorrectIdForImportedComponent (owner without version, the id of the
\* request, the path of the file), and the component is not written.
C4_IncorrectIdForImported ==
    (Reconciled /\ req.id # NoId) =>
        \A i \in HandedOver :
            ResolvedWith(i, LAMBDA f : OwnedByOtherImported(added[i], f)) =>
                /\ ResolvedWith(i, LAMBDA f : /\ OwnedByOtherImported(added[i], f)
                                              /\ IncorrectIdFor(added[i], f))
                /\ NeverWritten(i)
                /\ Settled => stored = bitMap0

\* C4, amended: the same for a file that is not auto-generated; the failure
\* carries the owner, the id of the request and the path of such a file of
\* the component.
C4_IncorrectIdForImportedSource ==
    (Reconciled /\ req.id # NoId) =>
        \A i \in HandedOver :
            ResolvedWith(i, LAMBDA f : OwnedByOtherImported(added[i], f)
                                        /\ ~isAutoGeneratedFile(f.relativePath)) =>
                /\ ResolvedWith(i, LAMBDA f : /\ OwnedByOtherImported(added[i], f)
                                              /\ ~isAutoGeneratedFile(f.relativePath)
                                              /\ IncorrectIdFor(added[i], f))
                /\ NeverWritten(i)
                /\ Settled => stored = bitMap0

\* a settled add under an explicit id of a file an imported component owns
C4_Witness ==
    /\ Settled /\ req.id # NoId
    /\ \E i \in HandedOver :
          ResolvedWith(i, LAMBDA f : /\ OwnedByOtherImported(added[i], f)
                                     /\ ~isAutoGeneratedFile(f.relativePath)
                                     /\ IncorrectIdFor(added[i], f))

\* the components of the invocation whose identity another one of them has
\* too, scope and version ignored
SharedIds ==
    {added[j].componentId : j \in
        {j \in 1..Len(added) : \E k \in 1..Len(added) :
            k # j /\ BareEqual(added[k].componentId, added[j].componentId)}}

\* C5: the addedComponents of a successful add hold no two entries whose
\* identities are equal with scope and version ignored; when components
\* resolved in one multi-component invocation share an identity, the add
\* fails with DuplicateIds listing every shared identity.
C5_NoDuplicateIds ==
    /\ Succeeded =>
          \A j, k \in 1..Len(addedComponents) :
              j # k => ~BareEqual(addedComponents[j].id, addedComponents[k].id)
    /\ (pc # "idle" /\ multiple /\ SharedIds # {}) =>
          /\ err = DuplicateIds(SharedIds)
          /\ Settled

\* a multi-component add that settled with DuplicateIds for two components
C5_Witness ==
    /\ Settled /\ multiple /\ Len(added) >= 2
    /\ SharedIds # {}
    /\ err = DuplicateIds(SharedIds)

\* the paths the exclude patterns of a request match: every pattern filled
\* in from every expanded input path and looked up on disk
ExcludedPaths(r) ==
    Range(getFilesAccordingToDsl(Flatten(Map(r.componentPaths, glob)), r.exclude,
                                 getIgnoreList(bitMap0)))

\* C6: for a request with exclude patterns, from any index (also one that
\* tracks the target component with more files, override false), no path an
\* exclude pattern matches is in the files of an entry of the returned
\* addedComponents.
C6_ExcludedNeverReturned ==
    (Succeeded /\ req.exclude # <<>>) =>
        \A k \in 1..Len(addedComponents) :
            PathsOf(addedComponents[k].files) \cap ExcludedPaths(req) = {}

\* the paths the exclude patterns of the request match when they are filled
\* in from the given paths
ExcludedAmong(paths) == Range(getFilesAccordingToDsl(paths, req.exclude, getIgnoreList(bitMap0)))

\* the main file handed to the index with call k, and the paths of the call
MainOfCall(k) == PathOf(indexCalls[k].mainFile)

PathsOfCall(k) ==
    [i \in 1..Len(indexCalls[k].files) |-> indexCalls[k].files[i].relativePath]

\* C7: when an exclude pattern matches the resolved main file of a
\* component, the file set of the component becomes empty and the component
\* is dropped: nothing of it is handed to the index or returned.  As a state
\* property: no call to the index, and so no returned entry, is for a
\* component whose main file an exclude pattern matches.
C7_ExcludedMainDropsComponent ==
    req.exclude # <<>> =>
        /\ \A k \in 1..Len(indexCalls) :
              indexCalls[k].mainFile # <<>> =>
                  MainOfCall(k) \notin ExcludedAmong(Append(PathsOfCall(k), MainOfCall(k)))
        /\ Len(addedComponents) <= Len(indexCalls)

\* a settled add with a main file and an exclude pattern that matches it, of
\* a directory that holds other files too: nothing is written or returned
C7_Witness ==
    /\ Succeeded
    /\ req.main = Lit(pAjs) /\ req.componentPaths = <<pA>>
    /\ pAjs \in ExcludedAmong(<<pAjs>>)
    /\ pAspec \notin ExcludedAmong(<<pAjs, pAspec>>)
    /\ added[1].st = "empty"
    /\ indexCalls = <<>> /\ addedComponents = <<>> /\ bitMap = bitMap0

\* the ignore set of the invocation: the project's rules, the dist
\* directories of the imported components and the excluded files
IgnoredByRequest(p) == ignores(getIgnoreList(bitMap0), p) \/ p \in ExcludedPaths(req)

\* call k hands the index a main file that was specified and resolved: a
\* path, not a pattern left unfilled, that is on disk
MainResolved(k) ==
    /\ indexCalls[k].mainFile # <<>>
    /\ ~IsDsl(indexCalls[k].mainFile)
    /\ existsSync(MainOfCall(k))

\* C8: every component add writes to the index with a main file specified
\* and resolved has the path of the main file among the files written for
\* it (also after exclusion and after files owned by another identity were
\* dropped), and the main file is not matched by the ignore set.
C8_MainFileAmongWrittenFiles ==
    \A k \in 1..Len(indexCalls) :
        MainResolved(k) =>
            /\ MainOfCall(k) \in PathsOf(indexCalls[k].files)
            /\ ~IgnoredByRequest(MainOfCall(k))

\* a main file the index must never be given: a pattern left unfilled, a
\* path that is not on disk, a directory, or a path the ignore set matches
BadMainFile(mainFile) ==
    \/ IsDsl(mainFile)
    \/ ~existsSync(PathOf(mainFile))
    \/ isDir(PathOf(mainFile))
    \/ IgnoredByRequest(PathOf(mainFile))

\* C9: no component is written to the index with a specified main file that
\* is not on disk, is matched by the ignore set or is a directory; the add
\* fails instead (ExcludedMainFile for an ignored main file, MainFileIsDir
\* for a directory).
C9_BadMainFileNeverWritten ==
    /\ \A k \in 1..Len(indexCalls) :
          indexCalls[k].mainFile # <<>> => ~BadMainFile(indexCalls[k].mainFile)
    /\ (Settled /\ req.main # <<>> /\ ~IsDsl(req.main) /\ existsSync(PathOf(req.main))) =>
          /\ BadMainFile(req.main) => err # NoErr
          /\ err.kind = "MainFileIsDir" => isDir(PathOf(req.main))
          /\ err.kind = "ExcludedMainFile" => IgnoredByRequest(PathOf(req.main))

\* ------------------------------------------------------ mode classification
\* the top-level paths of a request that resolve: what the input paths
\* expand to on disk, without what the ignore set or an exclude pattern takes
TopSeq(r) ==
    SelectSeq(Uniq(Flatten(Map(r.componentPaths, glob))), LAMBDA p : ~IgnoredByRequest(p))

TopPaths(r) == Range(TopSeq(r))

\* the resolved top-level paths a test pattern of the request matches
TestMatched(r) == Range(getFilesAccordingToDsl(TopSeq(r), r.tests, getIgnoreList(bitMap0)))

\* the invocation got past the resolution of its components
ResolvedOk == pc # "idle" /\ added # <<>>

\* id is what path p gives: namespace (or the segment before the last) and
\* the last segment, for a file without its extension
DerivedFrom(p, id) ==
    /\ id.name = (IF isDir(p) THEN BaseName(p) ELSE NameOf(BaseName(p)))
    /\ id.box = (IF req.namespace # <<>> THEN req.namespace ELSE p[Len(p) - 1])

\* the files of a resolved top-level path: the path itself, for a directory
\* every file under it the ignore set lets through
FilesOfPath(p) ==
    IF isDir(p)
    THEN {q \in DiskPaths : /\ ~isDir(q) /\ IsPrefix(p, q) /\ Len(q) > Len(p)
                            /\ ~IgnoredByRequest(q)}
    ELSE {p}

UnionOfFiles(r) == UNION {FilesOfPath(p) : p \in TopPaths(r)}

\* the components are one per path of the set, each with the id its path gives
OnePerPath(paths) ==
    /\ Len(added) = Cardinality(paths)
    /\ \E f \in [1..Len(added) -> paths] :
          /\ \A i, j \in 1..Len(added) : i # j => f[i] # f[j]
          /\ \A i \in 1..Len(added) : DerivedFrom(f[i], added[i].componentId)

\* with an explicit id: one component under that id, with every file of
\* every resolved path (when nothing is excluded) and no other file than
\* these, the test files and the main file
OneUnderGivenId ==
    /\ Len(added) = 1
    /\ BareEqual(added[1].componentId, req.id)
    /\ (req.exclude = <<>> => UnionOfFiles(req) \subseteq PathsOf(added[1].resolved))
    /\ \A i \in 1..Len(added[1].resolved) :
          \/ added[1].resolved[i].relativePath \in UnionOfFiles(req)
          \/ added[1].resolved[i].test
          \/ added[1].resolved[i].relativePath = PathOf(added[1].mainFile)

\* C11 as stated: when more than one top-level path resolves and no id is
\* given, add produces one component per resolved path, each with the
\* identity derived from that path; in every other case at most one
\* component, and with an explicit id its files are the union of the files
\* of all resolved paths.
C11_OneComponentPerResolvedPath ==
    ResolvedOk =>
        /\ multiple <=> (Cardinality(TopPaths(req)) > 1 /\ req.id = NoId)
        /\ multiple => OnePerPath(TopPaths(req))
        /\ ~multiple => Len(added) <= 1
        /\ req.id # NoId => OneUnderGivenId

\* C11: when more than one top-level path resolves and no id is given, add
\* produces one component per resolved path that no test pattern of the
\* request matches (such a path is a test file of the others, not a
\* component), each with the identity derived from its path; in every other
\* case at most one component, and with an explicit id its files are the
\* union of the files of all resolved paths, with the test files and the
\* main file merged in.
C11_OneComponentPerNonTestPath ==
    ResolvedOk =>
        /\ multiple <=> (Cardinality(TopPaths(req)) > 1 /\ req.id = NoId)
        /\ multiple => OnePerPath(TopPaths(req) \ TestMatched(req))
        /\ ~multiple => Len(added) <= 1
        /\ req.id # NoId => OneUnderGivenId

\* two paths, no id: an invocation that has written two components
C11_Witness ==
    /\ Succeeded
    /\ multiple
    /\ Cardinality(TopPaths(req)) = 2
    /\ Len(addedComponents) = 2

\* --------------------------------------------------- no write without files
\* the components of the invocation that were written to the index
WrittenComponents == {i \in 1..Len(added) : added[i].st = "written"}

\* the components that had no file left: after exclusion ("empty", never
\* handed over) or after reconciliation ("dropped")
WithoutFiles == {i \in 1..Len(added) : added[i].st \in {"empty", "dropped"}}

TopDirs(r) == {p \in TopPaths(r) : isDir(p)}

\* C13 as stated: a call to the index carries a trackDir only if exactly one
\* directory was supplied, nothing is excluded and the origin is authored;
\* no component of an invocation given more than one directory has one.
C13_TrackDirOnlyForOneDirectory ==
    \A k \in 1..Len(indexCalls) :
        indexCalls[k].trackDir # NoPath =>
            /\ Cardinality(TopDirs(req)) = 1
            /\ req.exclude = <<>>
            /\ req.origin = AUTHORED

\* C13: a call to the index carries a trackDir only if its component was
\* resolved from exactly one path (the only resolved path, or one path of an
\* invocation of several components), that path is a directory and is the
\* trackDir, nothing is excluded and the origin is authored; a component
\* merged from more than one path under an explicit id has none.
C13_TrackDirOnlyForOnePathComponent ==
    \A k \in 1..Len(indexCalls) :
        /\ indexCalls[k].trackDir # NoPath =>
              /\ indexCalls[k].trackDir \in TopDirs(req)
              /\ multiple \/ Cardinality(TopPaths(req)) = 1
              /\ req.exclude = <<>>
              /\ req.origin = AUTHORED
        /\ ~multiple /\ Cardinality(TopPaths(req)) > 1 => indexCalls[k].trackDir = NoPath

\* one directory, nothing else: it is written with the directory as trackDir
C13_Witness ==
    /\ Succeeded
    /\ Cardinality(TopPaths(req)) = 1
    /\ \E k \in 1..Len(indexCalls) : indexCalls[k].trackDir \in TopDirs(req)

\* ---------------------------------------------------- identity reconciliation
\* the index the invocation started from records an identity that matches
\* id when scope and version are ignored, with the version of id
RecordedWithVersionOf(id) ==
    \E k \in 1..Len(bitMap0) :
        /\ BareEqual(bitMap0[k].id, id)
        /\ hasVersion(bitMap0[k].id)
        /\ bitMap0[k].id.version = id.version

\* the index the invocation started from records an identity that matches id
Recorded(id) == \E k \in 1..Len(bitMap0) : BareEqual(bitMap0[k].id, id)

\* the failures add() can end with before it reconciles an identity
BeforeReconciliation == {"PathsNotExist", "NoFiles"}

FailedRequests == {n \in 1..Len(batch) : batch[n].err # NoErr}

\* C15: in addMany, as soon as the add of a request has failed, whatever the
\* other requests have done or will do, addMany has failed with the failure
\* of a request of the batch (of that request when it is the only one that
\* failed); it never returns a result list, and the list it returns when no
\* request fails has one result for every request.
C15_BatchFailureSurfaces ==
    /\ FailedRequests # {} =>
          /\ manyOutcome.state = "rejected"
          /\ \E n \in FailedRequests : manyOutcome.err = batch[n].err
    /\ manyOutcome.state = "resolved" =>
          /\ FailedRequests = {}
          /\ {manyOutcome.results[k].request : k \in 1..Len(manyOutcome.results)}
                = 1..Len(batch)
    /\ \A k \in 1..Len(addResults) : addResults[k].request \notin FailedRequests

\* a batch of two: one request has failed after the other had completed and
\* pushed its result, and addMany has failed with the failure of the former
C15_Witness ==
    /\ Len(batch) = 2
    /\ Len(addResults) = 1
    /\ Cardinality(FailedRequests) = 1
    /\ manyOutcome.state = "rejected"
    /\ stored = bitMap0
    /\ stored # bitMap

\* ------------------------------------------- placeholders of unsupported files
\* file f of component c is tracked under another identity than the one
\* being added
OwnerDiffers(c, f) ==
    /\ OwnerOf(f.relativePath) # NoId
    /\ OwnerOf(f.relativePath) # c.componentId

\* file f is the symlink an imported component c carries in place of a
\* dependency file bit writes no link file for
PlaceholderOf(c, f) ==
    /\ getComponentIfExist(bitMap0, c.componentId).origin = IMPORTED
    /\ isGeneratedForUnsupportedFiles(f.relativePath, c.componentId,
                                      getComponentIfExist(bitMap0, c.componentId))

\* C16: with an explicit id, a file whose recorded owner differs from the
\* identity being added under an imported component, and which is the
\* placeholder of an unsupported dependency file of that component, is left
\* out of the add without a failure: the add never fails with
\* IncorrectIdForImportedComponent for it, and the file is not written.
C16_PlaceholderDroppedSilently ==
    (Reconciled /\ req.id # NoId) =>
        \A i \in HandedOver : \A f \in Range(added[i].resolved) :
            OwnerDiffers(added[i], f) /\ PlaceholderOf(added[i], f) =>
                /\ ~IncorrectIdFor(added[i], f)
                /\ NotWrittenFor(added[i].componentId, f.relativePath)

\* --------------------------------------------- duplicates among the components
\* the components of the invocation that still have files after exclusion
\* and carry identity id
WithFilesUnder(id) == {i \in 1..Len(added) : added[i].componentId = id /\ added[i].resolved # <<>>}

\* C17: in an invocation of several components, a component left without
\* files after exclusion does not count for the duplicate check: add fails
\* with DuplicateIds only for an identity that at least two components which
\* still have files share.
C17_EmptyComponentsAreNoDuplicates ==
    (pc # "idle" /\ multiple /\ err.kind = "DuplicateIds") =>
        \A id \in err.ids : Cardinality(WithFilesUnder(id)) >= 2

\* ------------------------------------------------- writes after the duplicate check
\* the index in memory or on disk is not what the invocation started from,
\* or the index was called
IndexTouched == indexCalls # <<>> \/ bitMap # bitMap0 \/ stored # bitMap0

\* C18: in an invocation of several components the index is touched only
\* after every component has been resolved and the duplicate check has
\* passed (the components handed over have identities different from one
\* another); when add fails with DuplicateIds no call was made to the index,
\* and the index in memory and on disk is what it was before the call.
C18_NoWriteBeforeDuplicateCheck ==
    /\ (multiple /\ IndexTouched) =>
          /\ pc \in {"checked", "done"}
          /\ added # <<>>
          /\ err.kind # "DuplicateIds"
          /\ \A i, j \in 1..Len(added) :
                i # j => added[i].componentId # added[j].componentId
    /\ err.kind = "DuplicateIds" =>
          /\ multiple
          /\ ~IndexTouched
          /\ addedComponents = <<>>

\* an invocation of several components that has failed with DuplicateIds,
\* from an index that is not empty
C18_Witness ==
    /\ Settled
    /\ multiple
    /\ err.kind = "DuplicateIds"
    /\ bitMap0 # <<>>
    /\ stored = bitMap0

\* ------------------------------------------------------ nothing to add
\* what the component paths of a request expand to on disk
Globbed(r) == Range(Flatten(Map(r.componentPaths, glob)))

\* the test-only fallback: tests and an id, and no component path resolves
Fallback(r) == r.tests # <<>> /\ r.id # NoId /\ Globbed(r) = {}

\* every test file the request names is on disk
TestsExist(r) == getMissingTestFiles(r.tests) = {}

\* the invocation has ended and has left the index alone
EndedUntouched == Settled /\ ~IndexTouched /\ addedComponents = <<>> /\ added = <<>>

\* C19: outside the test-only fallback (the named test files being on disk):
\* if the component paths expand to nothing add fails with PathsNotExist
\* carrying the component paths; if they expand to paths that the ignore
\* set, resolved exclude patterns included, filters out altogether, add
\* fails with NoFiles carrying exactly these paths; the one failure never
\* stands for the other, and nothing is written in either case.
C19_NothingMatchedOrAllIgnored ==
    (pc # "idle" /\ TestsExist(req) /\ ~Fallback(req)) =>
        /\ Globbed(req) = {} =>
              /\ err = PathsNotExist(Range(req.componentPaths))
              /\ EndedUntouched
        /\ (Globbed(req) # {} /\ \A p \in Globbed(req) : IgnoredByRequest(p)) =>
              /\ err = NoFiles(Globbed(req))
              /\ EndedUntouched
        /\ err.kind = "NoFiles" =>
              /\ Globbed(req) # {}
              /\ \A p \in Globbed(req) : IgnoredByRequest(p)
        /\ err.kind = "PathsNotExist" => Globbed(req) = {}

\* an add whose only path is on disk and is taken away by an exclude pattern
C19_Witness ==
    /\ Settled
    /\ req.exclude # <<>>
    /\ Globbed(req) # {}
    /\ err = NoFiles(Globbed(req))
    /\ \E p \in Globbed(req) : ~ignores(getIgnoreList(bitMap0), p)

\* --------------------------------------------------------- test-only fallback
\* C20: when tests and an explicit id are given and no component path
\* resolves, an add that ends without failure has resolved one component
\* under the given id, whose files are test files, all of them; in every
\* other case where the component paths resolve to nothing add fails with
\* PathsNotExist; an add whose component paths resolve to nothing never
\* succeeds without having resolved a component with files.
C20_TestOnlyFallback ==
    (Settled /\ TestsExist(req) /\ Globbed(req) = {}) =>
        /\ (Fallback(req) /\ err = NoErr) =>
              /\ Len(added) = 1
              /\ BareEqual(added[1].componentId, req.id)
              /\ added[1].resolved # <<>>
              /\ \A i \in 1..Len(added[1].resolved) : added[1].resolved[i].test
        /\ ~Fallback(req) => err.kind = "PathsNotExist"
        /\ err = NoErr => \E i \in 1..Len(added) : added[i].resolved # <<>>

\* ------------------------------------------------------ auto-generated files
\* a file of a component handed over that is not auto-generated and has an
\* imported record behind it
SourceFileWithImportedRecord ==
    \E i \in HandedOver : \E f \in Range(added[i].resolved) : ImportedInvolved(added[i], f)

\* C21: an auto-generated file is dropped before any ownership check: a
\* failure with MissingComponentIdForImportedComponent or
\* IncorrectIdForImportedComponent always comes from a file that is not
\* auto-generated (and IncorrectIdForImportedComponent never names an
\* auto-generated file), no warning is about an auto-generated file, and no
\* call to the index hands it one.
C21_AutoGeneratedDroppedFirst ==
    /\ err.kind \in {"MissingComponentIdForImportedComponent",
                     "IncorrectIdForImportedComponent"} => SourceFileWithImportedRecord
    /\ err.kind = "IncorrectIdForImportedComponent" => ~isAutoGeneratedFile(err.file)
    /\ \A k \in 1..Len(warnings) : ~isAutoGeneratedFile(warnings[k].file)
    /\ \A k \in 1..Len(indexCalls) :
          \A p \in PathsOf(indexCalls[k].files) : ~isAutoGeneratedFile(p)

\* a component written although one of its files is auto-generated and is
\* tracked under another identity
C21_Witness ==
    /\ Succeeded
    /\ \E i \in WrittenComponents : \E f \in Range(added[i].resolved) :
          /\ isAutoGeneratedFile(f.relativePath)
          /\ OwnerDiffers(added[i], f)

\* ------------------------------------------------------ identity from a path
\* segment k above the leaf of the absolute path of p: 0 the leaf, 1 its
\* parent, 2 the parent of its parent
SegmentAbove(p, k) == (ConsumerPath \o p)[Len(ConsumerPath) + Len(p) - k]

\* the name a path gives: the leaf, for a file without its extension
NameFrom(p) == IF isDir(p) THEN SegmentAbove(p, 0) ELSE NameOf(SegmentAbove(p, 0))

\* the components of the invocation are one per path of the set, the
\* identity of each having the name its path gives and as namespace the
\* override, or else the segment up above the leaf (for a directory, for
\* a file) of its path
DerivedWith(paths, upDir, upFile) ==
    /\ Len(added) = Cardinality(paths)
    /\ \E f \in [1..Len(added) -> paths] :
          /\ \A i, j \in 1..Len(added) : i # j => f[i] # f[j]
          /\ \A i \in 1..Len(added) :
                /\ added[i].componentId.name = NameFrom(f[i])
                /\ added[i].componentId.box =
                      (IF req.namespace # <<>> THEN req.namespace
                       ELSE SegmentAbove(f[i], IF isDir(f[i]) THEN upDir ELSE upFile))

\* the paths the components of the invocation are resolved from
ComponentPathsOf(r) ==
    IF multiple THEN TopPaths(r) \ TestMatched(r) ELSE TopPaths(r)

\* C22 as stated: without an explicit id the identity of a component has,
\* for a directory, the namespace override or else the parent-of-parent
\* segment as namespace and the directory leaf as name; for a file, the
\* override or else the leaf of its parent directory as namespace and the
\* file name without its extension as name.
C22_NamespaceFromParentOfParent ==
    (ResolvedOk /\ req.id = NoId) => DerivedWith(ComponentPathsOf(req), 2, 1)

\* C22: the same with, for a directory, the segment right above the leaf
\* (the directory that holds it) as namespace when there is no override.
C22_NamespaceFromParent ==
    (ResolvedOk /\ req.id = NoId) => DerivedWith(ComponentPathsOf(req), 1, 1)

\* a directory added without id and without namespace, written under the
\* name of the directory that holds it
C22_Witness ==
    /\ Succeeded
    /\ req.id = NoId /\ req.namespace = <<>>
    /\ \E k \in 1..Len(indexCalls) :
          \E p \in ComponentPathsOf(req) :
             /\ isDir(p)
             /\ indexCalls[k].componentId.box = SegmentAbove(p, 1)
             /\ indexCalls[k].componentId.name = SegmentAbove(p, 0)

ResultsOf(n) == { k \in 1..Len(manyOutcome.results) : manyOutcome.results[k].request = n }

\* C24: addMany opens the workspace context once; the context is closed at
\* most once, it is closed exactly when addMany has resolved, and by then
\* the add of every request has completed (no component still on its way to
\* the index) and the index on disk is the index in memory; the list
\* returned has as many results as there are requests, one for each.
C24_OneContextClosedOnceAfterAll ==
    /\ addContext.opened = (IF manyOutcome.state = "idle" THEN 0 ELSE 1)
    /\ addContext.closed = (IF manyOutcome.state = "resolved" THEN 1 ELSE 0)
    /\ manyOutcome.state = "resolved" =>
          /\ \A n \in 1..Len(batch) :
                /\ batch[n].pc = "fulfilled"
                /\ \A i \in 1..Len(batch[n].added) : batch[n].added[i].st # "checked"
          /\ stored = bitMap
          /\ Len(manyOutcome.results) = Len(batch)
          /\ \A n \in 1..Len(batch) :
                /\ Cardinality(ResultsOf(n)) = 1
                /\ \A k \in ResultsOf(n) :
                      /\ manyOutcome.results[k].addedComponents = batch[n].addedComponents
                      /\ manyOutcome.results[k].warnings = batch[n].warnings

\* addMany of two requests has resolved, both wrote to the index, and the
\* request that was given second finished first
C24_Witness ==
    /\ manyOutcome.state = "resolved"
    /\ Len(batch) = 2
    /\ manyOutcome.results[1].request = 2
    /\ \A n \in 1..2 : batch[n].addedComponents # <<>>
    /\ addContext = AddContext(1, 1)

\* ------------------------------------------------------------- single owner
\* no file path is tracked under two records of the index
SingleOwner(bm) ==
    \A i, j \in 1..Len(bm) :
        i # j => PathsOf(bm[i].files) \cap PathsOf(bm[j].files) = {}

\* C25: single-owner invariant of the index: when no file path is tracked
\* under two identities in the index an add starts from, none is in the
\* index in memory while the add runs nor in the index it saves, also when
\* the add resolves several components that contain the same file.
C25_SingleOwnerPreserved ==
    SingleOwner(bitMap0) => (SingleOwner(bitMap) /\ SingleOwner(stored))

====
